---- MODULE Spec2Model ----
(***************************************************************************)
(* Model of the plugin engine of go-ops-agent: the plugin registry         *)
(* (core/plugin_registry.go), the lifecycle of the shipped plugins and     *)
(* the pipeline engine (core/framework.go) with its collector workers,     *)
(* its processor worker, its health-surface worker and the default health  *)
(* checks (core/health.go).                                                *)
(***************************************************************************)
EXTENDS Integers, Sequences, FiniteSets, TLC

\* ------------------------------------------------------------------ bounds
\* largest capacity of the data channel (FrameworkConfig.DataChannelSize)
MaxChannelSize == 2
\* number of batches each collector puts on the channel
MaxBatches == 2
\* number of Framework.Start calls explored in the scenario "restart"
MaxStarts == 2
\* number of LoadPlugin / UnloadPlugin calls explored next to a running
\* pipeline
MaxOps == 1
\* number of LoadPlugin / UnloadPlugin calls explored in the scenarios
\* "registry" and "restart"
MaxRegistryOps == 2

\* Longest workflow, in steps
MaxSteps == 2

\* Most StartWorkflow calls for the workflow
MaxRuns == 2

\* Agent names the steps of a workflow refer to
StepAgents == {"w1", "w2"}

\* WorkflowState and StepStatus
WorkflowStates ==
  {"pending", "running", "paused", "completed", "failed", "cancelled"}

StepStatuses == {"pending", "running", "completed", "failed", "skipped"}

\* The workflows AddWorkflow is given: pending, every step pending
Workflows ==
  {[State |-> "pending", Steps |-> st] :
     st \in UNION {[1..n -> [Agent : StepAgents, Status : {"pending"}]] :
                    n \in 1..MaxSteps}}

\* No workflow was added
NoWorkflow == [State |-> "pending", Steps |-> <<>>]


\* ------------------------------------------------------- the plugin objects
\* r2 is a responder that carries the same name as the collector c2, so
\* that registration under a name already taken is exercised.
Collectors == {"c1", "c2"}
Analyzers  == {"a1", "a2"}
Responders == {"r1", "r2"}
Agents     == {"g1"}
Plugins    == Collectors \cup Analyzers \cup Responders \cup Agents

NoPlugin == "none"

\* Plugin.Name()
Name(p) == IF p = "r2" THEN "c2" ELSE p

Names == {Name(p) : p \in Plugins}

\* Plugin.Type()
Type(p) ==
  IF p \in Collectors THEN "collector"
  ELSE IF p \in Analyzers THEN "analyzer"
  ELSE IF p \in Responders THEN "responder"
  ELSE "agent"

\* PluginStatus values
PluginStatus == {"stopped", "starting", "running", "stopping", "error"}

\* Analyses an analyzer may return: dp is len(DataPoints), conf is the
\* confidence in tenths (Confidence is an unconstrained float64).
Analyses == {[dp |-> 1, conf |-> 5], [dp |-> 0, conf |-> 5],
             [dp |-> 1, conf |-> 15]}

NoAnalysis == [dp |-> -1, conf |-> 0]

\* No batch: the contextData of an agent before the first SetContext
NoBatch == [src |-> NoPlugin, seq |-> 0]

Gens == 1..MaxStarts

\* The runs explored.  A scenario fixes the plugin objects the caller
\* holds, those the configuration declares (loaded by loadPluginsFromConfig
\* before Start), and how many calls of Start and of LoadPlugin /
\* UnloadPlugin the caller makes.
Scenarios ==
  {"registry", "pipeline", "collectors", "restart", "health", "analysis"}

\* The plugin objects of a scenario
Objects(sc) ==
  CASE sc = "registry"   -> Plugins
    [] sc = "pipeline"   -> {"c1", "a1", "r1", "r2", "g1"}
    [] sc = "collectors" -> {"c1", "c2", "a1"}
    [] sc = "restart"    -> {"c1"}
    [] sc = "health"     -> {"c1"}
    [] sc = "analysis"   -> {"c1", "a1", "a2", "r1", "g1"}

\* FrameworkConfig.Plugins of a scenario, as plugin objects
ConfigPlugins(sc) ==
  CASE sc = "registry"   -> {}
    [] sc = "pipeline"   -> {"c1", "a1", "r1", "r2"}
    [] sc = "collectors" -> {"c1", "c2", "a1"}
    [] sc = "restart"    -> {"c1"}
    [] sc = "health"     -> {"c1"}
    [] sc = "analysis"   -> {"c1", "a1", "a2", "r1", "g1"}

StartsOf(sc) ==
  CASE sc = "registry"   -> 0
    [] sc = "pipeline"   -> 1
    [] sc = "collectors" -> 1
    [] sc = "restart"    -> MaxStarts
    [] sc = "health"     -> 1
    [] sc = "analysis"   -> 1

\* FrameworkConfig.DataChannelSize of a scenario
SizesOf(sc) == IF sc = "collectors" THEN 1..MaxChannelSize ELSE {1}

\* Batches each collector sends in a scenario
BatchesOf(sc) == IF sc \in {"restart", "health"} THEN 1 ELSE MaxBatches

OpsOf(sc) ==
  CASE sc = "registry"   -> MaxRegistryOps + 1
    [] sc = "pipeline"   -> MaxOps
    [] sc = "collectors" -> 0
    [] sc = "restart"    -> MaxRegistryOps
    [] sc = "health"     -> 0
    [] sc = "analysis"   -> 0

\* FrameworkConfig.DefaultAgent of a scenario ("" when none is configured)
DefaultAgent(sc) == IF sc = "health" THEN "g1" ELSE ""

\* Scenarios whose caller asks for the health status and registers a
\* custom check
PollsHealth(sc) == sc = "health"

\* Scenarios whose caller sends requests to the HTTP health surface
UsesHttp(sc) == sc \in {"health", "restart"}

\* Scenarios whose caller sends GET /status requests
ServesStatus(sc) == sc = "health"

\* Scenarios whose caller reads the engine status
ReadsStatus(sc) == sc \in {"registry", "health"}

\* Scenarios whose caller queries agents
Queries(sc) == sc \in {"registry", "health", "analysis"}

\* What a call returns: for an error the operation and the kind of the
\* FrameworkError ("other" for an error of another type); for the health
\* status the overall status and in info the checks that failed; for a
\* request to the health surface the HTTP status code; for a query in
\* info the agent whose ProcessQuery was called.
Result(op, kind, info) == [op |-> op, kind |-> kind, info |-> info]

\* A nil error
Ok == Result("none", "nil", {})

\* The checks registered by NewFrameworkHealthChecker
DefaultChecks == {"framework_running", "plugins_healthy", "data_channel"}

\* A check registered by the caller, which always fails
CustomChecks == {"custom"}

\* A check registered by the caller, which never returns
HungChecks == {"hung"}

VARIABLES
  scn,          \* the scenario of this run
  size,         \* FrameworkConfig.DataChannelSize, cap(Framework.dataChannel)
  plugins,      \* DefaultPluginRegistry.plugins : name -> plugin object
  status,       \* the status field of every plugin object
  running,      \* Framework.running
  shutdown,     \* Framework.shutdown
  mu,           \* writer holding Framework.mu: "free", "start" or "stop"
  gen,          \* number of Start calls so far; Framework.ctx is context gen
  ctxDone,      \* which derived contexts are cancelled
  wg,           \* Framework.wg counter
  dataChannel,  \* Framework.dataChannel
  startSt,      \* position of the Start call in progress
  stopSt,       \* position of the Stop call in progress
  unl,          \* name argument of the UnloadPlugin call in progress
  cw,           \* collector workers, per Start call and collector
  proc,         \* processor workers, per Start call
  hs,           \* health-surface workers, per Start call
  nextSeq,      \* history: per collector, number of batches sent
  recvSeq,      \* history: per collector, last batch the processor received
  ops,          \* number of LoadPlugin / UnloadPlugin calls so far
  ret,          \* what the last completed call returned
  checks,       \* DefaultHealthChecker.checks: names of the registered checks
  contextData,  \* AIAgent.contextData: per agent, the batch SetContext stored
  hd,           \* position of the GET /status request in progress
  gs,           \* position and locals of the GetStatus call in progress
  workflow,     \* the Workflow added to the orchestrator: State and Steps
  agents,       \* AgentOrchestrator.agents: names of the registered agents
  ew,           \* the executeWorkflow goroutines, per StartWorkflow call
  wctx          \* the context given to StartWorkflow is cancelled

\* The state of the workflow orchestrator
orchVars == <<workflow, agents, ew, wctx>>

vars == <<scn, size, workflow, agents, ew, wctx, gs, plugins, status, running, shutdown, mu, gen, ctxDone, wg,
          dataChannel, startSt, stopSt, unl, cw, proc, hs, nextSeq, recvSeq,
          ops, ret, checks, contextData, hd>>

\* ------------------------------------------------------------ the registry
\* DefaultPluginRegistry.GetPlugin
GetPlugin(n) == plugins[n]

\* ListPlugins whose copy loop stops one entry short
ListPlugins_oneShort ==
  LET all == {plugins[n] : n \in Names} \ {NoPlugin} IN
  IF all = {} THEN {} ELSE all \ {CHOOSE p \in all : TRUE}

\* DefaultPluginRegistry.ListPlugins
ListPlugins == {plugins[n] : n \in Names} \ {NoPlugin}

\* DefaultPluginRegistry.ListPluginsByType
ListPluginsByType(t) == {p \in ListPlugins : Type(p) = t}

\* DefaultPluginRegistry.GetPluginCount
GetPluginCount == Cardinality({n \in Names : plugins[n] # NoPlugin})

\* RegisterPlugin whose write to the map loses the entries written by
\* the other callers
RegisterPlugin_lostUpdate(reg, p) ==
  IF reg[Name(p)] # NoPlugin THEN reg
  ELSE [n \in Names |-> IF n = Name(p) THEN p ELSE NoPlugin]

\* RegisterPlugin without the refusal of a taken name: the plugin is filed
\* under a free key instead.
RegisterPlugin_freeKey(reg, p) ==
  IF reg[Name(p)] = NoPlugin THEN [reg EXCEPT ![Name(p)] = p]
  ELSE IF \E n \in Names : reg[n] = NoPlugin
    THEN [reg EXCEPT ![CHOOSE n \in Names : reg[n] = NoPlugin] = p]
    ELSE reg

\* DefaultPluginRegistry.RegisterPlugin: the registry after the call
RegisterPlugin(reg, p) ==
  IF reg[Name(p)] # NoPlugin THEN reg
  ELSE [reg EXCEPT ![Name(p)] = p]

\* DefaultPluginRegistry.RegisterPlugin returns an error: the name is taken
RegisterFails(reg, p) == reg[Name(p)] # NoPlugin

\* DefaultPluginRegistry.UnregisterPlugin returns an error: no such name
UnregisterFails(reg, n) == reg[n] = NoPlugin

\* UnregisterPlugin that reports success without deleting the entry
UnregisterPlugin_keep(reg, n) == reg

\* DefaultPluginRegistry.UnregisterPlugin: the registry after the call
UnregisterPlugin(reg, n) ==
  IF reg[n] = NoPlugin THEN reg
  ELSE [reg EXCEPT ![n] = NoPlugin]

\* ------------------------------------------------- the plugins' lifecycle
\* Start of a shipped plugin (PrometheusCollector.Start, AIAgent.Start,
\* LoggerResponder.Start), under the plugin's own lock: refused when the
\* plugin is running, otherwise the status goes through starting to running
\* or, when the connectivity test fails, to error.  healthy is the outcome
\* of that test.  The result is <<new status, error returned>>.
CanFailStart(p) == Type(p) \in {"collector", "agent"}

PluginStart(st, healthy) ==
  IF st = "running" THEN <<st, TRUE>>
  ELSE IF ~healthy THEN <<"error", TRUE>>
  ELSE <<"running", FALSE>>

\* Stop of a shipped plugin: refused unless the plugin is running.
PluginStop(st) ==
  IF st # "running" THEN <<st, TRUE>>
  ELSE <<"stopped", FALSE>>

\* ------------------------------------------------------------ worker state
CwIdle == "none"

ProcIdle ==
  [pc |-> "none", todo |-> {}, an |-> NoAnalysis, rtodo |-> {},
   cur |-> NoPlugin, can |-> FALSE, err |-> FALSE, data |-> NoBatch,
   ags |-> {}]

StartIdle == [pc |-> "idle", snap |-> {}, failed |-> {}]

\* Workers counted by Framework.wg that have not returned yet
LiveCollectorWorkers ==
  {gc \in Gens \X Collectors : cw[gc[1]][gc[2]] \in {"select", "failed", "tick", "send"}}

LiveProcessors == {g \in Gens : proc[g].pc \notin {"none", "done"}}

LiveHealthWorkers == {g \in Gens : hs[g] = "serving"}

\* No GetStatus call is building a snapshot
GsIdle == [pc |-> "idle"]

\* An orchestrator goroutine that was not started
EwIdle == [pc |-> "none", i |-> 0]

\* NewAgentOrchestrator: no agent is registered, no workflow is running
InitOrchestrator ==
  /\ agents = {}
  /\ ew = [r \in 1..MaxRuns |-> EwIdle]
  /\ wctx = FALSE

\* NewFramework, the plugins' constructors and loadPluginsFromConfig
InitEngine ==
  /\ scn \in Scenarios
  /\ size \in SizesOf(scn)
  /\ plugins = [n \in Names |->
                  IF \E p \in ConfigPlugins(scn) : Name(p) = n
                    THEN CHOOSE p \in ConfigPlugins(scn) : Name(p) = n
                    ELSE NoPlugin]
  /\ status = [p \in Plugins |-> "stopped"]
  /\ running = FALSE
  /\ shutdown = FALSE
  /\ mu = "free"
  /\ gen = 0
  /\ ctxDone = [g \in Gens |-> FALSE]
  /\ wg = 0
  /\ dataChannel = <<>>
  /\ startSt = StartIdle
  /\ stopSt = "idle"
  /\ unl = NoPlugin
  /\ cw = [g \in Gens |-> [c \in Collectors |-> CwIdle]]
  /\ proc = [g \in Gens |-> ProcIdle]
  /\ contextData = [a \in Agents |-> NoBatch]
  /\ hd = "idle"
  /\ gs = GsIdle
  /\ hs = [g \in Gens |-> "none"]
  /\ nextSeq = [c \in Collectors |-> 0]
  /\ recvSeq = [c \in Collectors |-> 0]
  /\ ops = 0
  /\ ret = Ok
  /\ checks = DefaultChecks

\* The engine after construction, next to an orchestrator without workflow
Init ==
  /\ InitEngine
  /\ InitOrchestrator
  /\ workflow = NoWorkflow

\* --------------------------------------------------- LoadPlugin / Unload
\* LoadPlugin that also starts the plugin when the engine is running
LoadPlugin_autoStart(p) ==
  /\ p \in Objects(scn)
  /\ ops < OpsOf(scn)
  /\ ops' = ops + 1
  /\ plugins' = RegisterPlugin(plugins, p)
  /\ status' = IF running /\ ~RegisterFails(plugins, p)
                 THEN [status EXCEPT ![p] = PluginStart(@, TRUE)[1]]
                 ELSE status
  /\ ret' = IF RegisterFails(plugins, p)
              THEN Result("load", "plugin", {}) ELSE Ok
  /\ UNCHANGED <<scn, size, orchVars, gs, hd, contextData, checks, running, shutdown, mu, gen, ctxDone, wg,
                 dataChannel, startSt, stopSt, unl, cw, proc, hs, nextSeq,
                 recvSeq>>

\* Framework.LoadPlugin: RegisterPlugin, the error wrapped as a plugin error
LoadPlugin(p) ==
  /\ p \in Objects(scn)
  /\ ops < OpsOf(scn)
  /\ ops' = ops + 1
  /\ plugins' = RegisterPlugin(plugins, p)
  /\ ret' = IF RegisterFails(plugins, p)
              THEN Result("load", "plugin", {}) ELSE Ok
  /\ UNCHANGED <<scn, size, orchVars, gs, hd, contextData, checks, status, running, shutdown, mu, gen, ctxDone, wg,
                 dataChannel, startSt, stopSt, unl, cw, proc, hs, nextSeq,
                 recvSeq>>

\* Framework.UnloadPlugin, first half: GetPlugin, then Stop when the plugin
\* reports running.
UnloadGet(n) ==
  /\ n \in {Name(p) : p \in Objects(scn)}
  /\ ops < OpsOf(scn)
  /\ ops' = ops + 1
  /\ unl = NoPlugin
  /\ IF GetPlugin(n) = NoPlugin
       THEN /\ ret' = Result("unload", "plugin", {})
            /\ UNCHANGED <<status, unl>>
       ELSE /\ unl' = n
            /\ status' = [status EXCEPT ![GetPlugin(n)] =
                            IF @ = "running" THEN PluginStop(@)[1] ELSE @]
            /\ UNCHANGED ret
  /\ UNCHANGED <<scn, size, orchVars, gs, hd, contextData, checks, plugins, running, shutdown, mu, gen, ctxDone, wg,
                 dataChannel, startSt, stopSt, cw, proc, hs, nextSeq, recvSeq>>

\* Framework.UnloadPlugin, second half: UnregisterPlugin by name
UnloadUnregister ==
  /\ unl # NoPlugin
  /\ plugins' = UnregisterPlugin(plugins, unl)
  /\ ret' = IF UnregisterFails(plugins, unl)
              THEN Result("unload", "plugin", {}) ELSE Ok
  /\ unl' = NoPlugin
  /\ UNCHANGED <<scn, size, orchVars, gs, hd, contextData, checks, status, running, shutdown, mu, gen, ctxDone, wg,
                 dataChannel, startSt, stopSt, cw, proc, hs, nextSeq, recvSeq,
                 ops>>

\* ------------------------------------------------------------------ Start
\* The loop of Start over the snapshot ps of the registry: Start is called
\* on every plugin, a failing Start is logged and the loop continues.
\* healthy is the set of plugins whose connectivity test passes.  The result
\* is the status of every plugin after the loop.
StartAll(st, ps, healthy) ==
  [p \in Plugins |->
     IF p \in ps THEN PluginStart(st[p], p \in healthy)[1] ELSE st[p]]

\* The plugins of ps whose Start returned an error in that loop
FailedStarts(st, ps, healthy) ==
  {p \in ps : PluginStart(st[p], p \in healthy)[2]}

\* Framework.mu, a sync.RWMutex, as Lock sees it.  A Lock call made while a
\* reader holds the lock is pending: mu is then "startLock" or "stopLock",
\* which keeps new readers out, and the call goes on when the reader has
\* left.  w is the pending value of the caller.
WriteLockFree(w) == hd = "idle" /\ mu \in {"free", w}

\* Start or Stop calls f.mu.Lock() while the handler of GET /status holds
\* the read lock
LockPending(w) ==
  /\ mu = "free"
  /\ hd = "locked"
  /\ w = "startLock" => gen < StartsOf(scn)
  /\ mu' = w
  /\ UNCHANGED <<scn, size, orchVars, gs, hd, contextData, checks, plugins, status,
                 running, shutdown, gen, ctxDone, wg, dataChannel, startSt,
                 stopSt, unl, cw, proc, hs, nextSeq, recvSeq, ops, ret>>

\* Start without the refusal on a running engine
StartPlugins_noRefusal ==
  /\ WriteLockFree("startLock")
  /\ gen < StartsOf(scn)
  /\ running' = TRUE
  /\ mu' = "start"
  /\ gen' = gen + 1
  /\ \E sick \in SUBSET {p \in ListPlugins : CanFailStart(p)} :
       /\ status' = StartAll(status, ListPlugins, Plugins \ sick)
       /\ startSt' = [pc |-> "spawn", snap |-> ListPlugins,
                      failed |-> FailedStarts(status, ListPlugins,
                                              Plugins \ sick)]
  /\ UNCHANGED <<scn, size, orchVars, gs, hd, contextData, checks, plugins, shutdown, ctxDone, wg, dataChannel, stopSt,
                 unl, cw, proc, hs, nextSeq, recvSeq, ops, ret>>

\* Start that spawns the collector workers before it starts the plugins
StartPlugins_spawnFirst ==
  /\ WriteLockFree("startLock")
  /\ gen < StartsOf(scn)
  /\ IF running
       THEN /\ ret' = Result("start", "internal", {})
            /\ mu' = "free"
            /\ UNCHANGED <<running, gen, startSt, status, cw>>
       ELSE /\ running' = TRUE
            /\ mu' = "start"
            /\ gen' = gen + 1
            /\ cw' = [cw EXCEPT ![gen + 1] =
                        [c \in Collectors |->
                           IF c \in ListPluginsByType("collector")
                             THEN "select" ELSE CwIdle]]
            /\ \E sick \in SUBSET {p \in ListPlugins : CanFailStart(p)} :
                 /\ status' = StartAll(status, ListPlugins, Plugins \ sick)
                 /\ startSt' = [pc |-> "spawn", snap |-> ListPlugins,
                                failed |-> FailedStarts(status, ListPlugins,
                                                        Plugins \ sick)]
            /\ UNCHANGED ret
  /\ UNCHANGED <<scn, size, orchVars, gs, hd, contextData, checks, plugins, shutdown, ctxDone, wg, dataChannel, stopSt,
                 unl, proc, hs, nextSeq, recvSeq, ops>>

\* Framework.Start up to the enumeration of the collectors: takes the lock,
\* refuses when running, sets the flags, derives the context and starts
\* every registered plugin.
StartPlugins ==
  /\ WriteLockFree("startLock")
  /\ gen < StartsOf(scn)
  /\ IF running
       THEN /\ ret' = Result("start", "internal", {})
            /\ mu' = "free"
            /\ UNCHANGED <<running, gen, startSt, status>>
       ELSE /\ running' = TRUE
            /\ mu' = "start"
            /\ gen' = gen + 1
            /\ \E sick \in SUBSET {p \in ListPlugins : CanFailStart(p)} :
                 /\ status' = StartAll(status, ListPlugins, Plugins \ sick)
                 /\ startSt' = [pc |-> "spawn", snap |-> ListPlugins,
                                failed |-> FailedStarts(status, ListPlugins,
                                                        Plugins \ sick)]
            /\ UNCHANGED ret
  /\ UNCHANGED <<scn, size, orchVars, gs, hd, contextData, checks, plugins, shutdown, ctxDone, wg, dataChannel, stopSt,
                 unl, cw, proc, hs, nextSeq, recvSeq, ops>>

\* The workers Start spawns for the collectors cs: one collector worker
\* each, in the slot of the current Start call.
SpawnCollectors(cs) ==
  [cw EXCEPT ![gen] = [c \in Collectors |->
                         IF c \in cs THEN "select" ELSE CwIdle]]

\* The rest of Start: one worker per registered collector, the processor
\* and the health surface are spawned, and Start returns nil.
StartSpawn ==
  /\ startSt.pc = "spawn"
  /\ cw' = SpawnCollectors(ListPluginsByType("collector"))
  /\ wg' = wg + Cardinality(ListPluginsByType("collector")) + 2
  /\ proc' = [proc EXCEPT ![gen] = [ProcIdle EXCEPT !.pc = "recv"]]
  /\ hs' = [hs EXCEPT ![gen] = "serving"]
  /\ startSt' = StartIdle
  /\ mu' = "free"
  /\ ret' = Ok
  /\ UNCHANGED <<scn, size, orchVars, gs, hd, contextData, checks, plugins, status, running, shutdown, gen, ctxDone,
                 dataChannel, stopSt, unl, nextSeq, recvSeq, ops>>

\* The context handed to Start is cancelled by the caller.
CancelCaller ==
  /\ gen >= 1
  /\ ~ctxDone[gen]
  /\ ctxDone' = [ctxDone EXCEPT ![gen] = TRUE]
  /\ UNCHANGED <<scn, size, orchVars, gs, hd, contextData, checks, plugins, status, running, shutdown, mu, gen, wg,
                 dataChannel, startSt, stopSt, unl, cw, proc, hs, nextSeq,
                 recvSeq, ops, ret>>

\* ------------------------------------------------------------------- Stop
\* Framework.Stop up to the wait: takes the lock, refuses when not running,
\* flips the flags and cancels the derived context.
StopBegin ==
  /\ WriteLockFree("stopLock")
  /\ IF ~running
       THEN /\ ret' = Result("stop", "internal", {})
            /\ mu' = "free"
            /\ UNCHANGED <<running, shutdown, ctxDone, stopSt>>
       ELSE /\ running' = FALSE
            /\ shutdown' = TRUE
            /\ ctxDone' = [ctxDone EXCEPT ![gen] = TRUE]
            /\ mu' = "stop"
            /\ stopSt' = "wait"
            /\ UNCHANGED ret
  /\ UNCHANGED <<scn, size, orchVars, gs, hd, contextData, checks, plugins, status, gen, wg, dataChannel, startSt, unl, cw,
                 proc, hs, nextSeq, recvSeq, ops>>

\* A worker that took the ticker branch and now waits for Framework.mu,
\* which Stop holds until it returns: the wait group cannot reach zero.
WorkerBlockedOnLock ==
  \E g \in Gens, c \in Collectors : cw[g][c] = "tick"

\* The loop of Stop over the snapshot ps of the registry: Stop is called on
\* every plugin, errors are logged.  The result is the status of every
\* plugin after the loop.
StopAll(st, ps) ==
  [p \in Plugins |-> IF p \in ps THEN PluginStop(st[p])[1] ELSE st[p]]

\* The select after the wait, case <-done: all workers have returned.  Then
\* every registered plugin is stopped and Stop returns nil.
StopWaitDone ==
  /\ stopSt = "wait"
  /\ wg = 0
  /\ status' = StopAll(status, ListPlugins)
  /\ stopSt' = "idle"
  /\ mu' = "free"
  /\ ret' = Ok
  /\ UNCHANGED <<scn, size, orchVars, gs, hd, contextData, checks, plugins, running, shutdown, gen, ctxDone, wg,
                 dataChannel, startSt, unl, cw, proc, hs, nextSeq, recvSeq,
                 ops>>

\* The select after the wait, case <-time.After(30 * time.Second); the
\* timer is modelled as firing only when a worker cannot return before Stop
\* does.  Then every registered plugin is stopped and Stop returns nil.
StopTimeout ==
  /\ stopSt = "wait"
  /\ wg > 0
  /\ WorkerBlockedOnLock
  /\ status' = StopAll(status, ListPlugins)
  /\ stopSt' = "idle"
  /\ mu' = "free"
  /\ ret' = Ok
  /\ UNCHANGED <<scn, size, orchVars, gs, hd, contextData, checks, plugins, running, shutdown, gen, ctxDone, wg,
                 dataChannel, startSt, unl, cw, proc, hs, nextSeq, recvSeq,
                 ops>>

\* ------------------------------------------------------- collector worker
\* The worker is at the select at the top of its loop; "failed" when it
\* came back there from a Collect that returned an error.
AtSelect(g, c) == cw[g][c] \in {"select", "failed"}

\* A worker whose select at the top of the loop has no case for the
\* context: it leaves only once Stop has set the shutdown flag
CWCtxDone_shutdownOnly(g, c) ==
  /\ AtSelect(g, c)
  /\ shutdown
  /\ cw' = [cw EXCEPT ![g][c] = "done"]
  /\ wg' = wg - 1
  /\ UNCHANGED <<scn, size, orchVars, gs, hd, contextData, checks, plugins, status, running, shutdown, mu, gen, ctxDone,
                 dataChannel, startSt, stopSt, unl, proc, hs, nextSeq, recvSeq,
                 ops, ret>>

\* select: case <-ctx.Done() at the top of the loop
CWCtxDone(g, c) ==
  /\ AtSelect(g, c)
  /\ ctxDone[g]
  /\ cw' = [cw EXCEPT ![g][c] = "done"]
  /\ wg' = wg - 1
  /\ UNCHANGED <<scn, size, orchVars, gs, hd, contextData, checks, plugins, status, running, shutdown, mu, gen, ctxDone,
                 dataChannel, startSt, stopSt, unl, proc, hs, nextSeq, recvSeq,
                 ops, ret>>

\* select: case <-ticker.C at the top of the loop
CWTick(g, c) ==
  /\ AtSelect(g, c)
  /\ cw' = [cw EXCEPT ![g][c] = "tick"]
  /\ UNCHANGED <<scn, size, orchVars, gs, hd, contextData, checks, plugins, status, running, shutdown, mu, gen, ctxDone,
                 wg, dataChannel, startSt, stopSt, unl, proc, hs, nextSeq,
                 recvSeq, ops, ret>>

\* Batches of collector c that are sent or about to be sent
Produced(c) ==
  nextSeq[c] + Cardinality({g \in Gens : cw[g][c] = "send"})

\* A worker that returns when Collect returns an error
CWCollect_errorExits(g, c) ==
  /\ cw[g][c] = "tick"
  /\ mu = "free"
  /\ IF shutdown
       THEN /\ cw' = [cw EXCEPT ![g][c] = "done"]
            /\ wg' = wg - 1
       ELSE /\ \E out \in {"error", "empty"}
                     \cup (IF Produced(c) < BatchesOf(scn) THEN {"data"} ELSE {}) :
                 /\ cw' = [cw EXCEPT ![g][c] =
                             IF out = "data" THEN "send"
                             ELSE IF out = "error" THEN "done"
                             ELSE "select"]
                 /\ wg' = IF out = "error" THEN wg - 1 ELSE wg
  /\ UNCHANGED <<scn, size, orchVars, gs, hd, contextData, checks, plugins, status, running, shutdown, mu, gen, ctxDone,
                 dataChannel, startSt, stopSt, unl, proc, hs, nextSeq, recvSeq,
                 ops, ret>>

\* The body of the ticker branch: the shutdown flag is read under the read
\* lock; if it is set the worker returns, otherwise Collect is called.
\* out is the outcome of Collect: an error (logged, after which
\* the loop continues), no data, or a batch.
CWCollect(g, c) ==
  /\ cw[g][c] = "tick"
  /\ mu = "free"
  /\ IF shutdown
       THEN /\ cw' = [cw EXCEPT ![g][c] = "done"]
            /\ wg' = wg - 1
       ELSE /\ \E out \in {"error", "empty"}
                     \cup (IF Produced(c) < BatchesOf(scn) THEN {"data"} ELSE {}) :
                 cw' = [cw EXCEPT ![g][c] =
                          IF out = "data" THEN "send"
                          ELSE IF out = "error" THEN "failed"
                          ELSE "select"]
            /\ UNCHANGED wg
  /\ UNCHANGED <<scn, size, orchVars, gs, hd, contextData, checks, plugins, status, running, shutdown, mu, gen, ctxDone,
                 dataChannel, startSt, stopSt, unl, proc, hs, nextSeq, recvSeq,
                 ops, ret>>

\* A send that puts the batch at the head of the buffer
CWSend_atHead(g, c) ==
  /\ cw[g][c] = "send"
  /\ Len(dataChannel) < size
  /\ dataChannel' = <<[src |-> c, seq |-> nextSeq[c] + 1]>> \o dataChannel
  /\ nextSeq' = [nextSeq EXCEPT ![c] = @ + 1]
  /\ cw' = [cw EXCEPT ![g][c] = "select"]
  /\ UNCHANGED <<scn, size, orchVars, gs, hd, contextData, checks, plugins, status, running, shutdown, mu, gen, ctxDone,
                 wg, startSt, stopSt, unl, proc, hs, recvSeq, ops, ret>>

\* select: case f.dataChannel <- data, possible when the buffer has room
CWSend(g, c) ==
  /\ cw[g][c] = "send"
  /\ Len(dataChannel) < size
  /\ dataChannel' = Append(dataChannel, [src |-> c, seq |-> nextSeq[c] + 1])
  /\ nextSeq' = [nextSeq EXCEPT ![c] = @ + 1]
  /\ cw' = [cw EXCEPT ![g][c] = "select"]
  /\ UNCHANGED <<scn, size, orchVars, gs, hd, contextData, checks, plugins, status, running, shutdown, mu, gen, ctxDone,
                 wg, startSt, stopSt, unl, proc, hs, recvSeq, ops, ret>>

\* A plain blocking send in place of the select: the cancellation is not
\* seen, the worker goes on only when the buffer has room.
CWDrop_plainSend(g, c) ==
  /\ cw[g][c] = "send"
  /\ ctxDone[g]
  /\ Len(dataChannel) < size
  /\ dataChannel' = Append(dataChannel, [src |-> c, seq |-> nextSeq[c] + 1])
  /\ nextSeq' = [nextSeq EXCEPT ![c] = @ + 1]
  /\ cw' = [cw EXCEPT ![g][c] = "select"]
  /\ UNCHANGED <<scn, size, orchVars, gs, hd, contextData, checks, plugins, status, running, shutdown, mu, gen, ctxDone,
                 wg, startSt, stopSt, unl, proc, hs, recvSeq, ops, ret>>

\* select: case <-ctx.Done() while sending: the batch is dropped
CWDrop(g, c) ==
  /\ cw[g][c] = "send"
  /\ ctxDone[g]
  /\ cw' = [cw EXCEPT ![g][c] = "done"]
  /\ wg' = wg - 1
  /\ UNCHANGED <<scn, size, orchVars, gs, hd, contextData, checks, plugins, status, running, shutdown, mu, gen, ctxDone,
                 dataChannel, startSt, stopSt, unl, proc, hs, nextSeq, recvSeq,
                 ops, ret>>

\* --------------------------------------------------- health-surface worker
\* startHealthEndpoints: <-ctx.Done(), server.Shutdown, return
HSExit(g) ==
  /\ hs[g] = "serving"
  /\ ctxDone[g]
  /\ hs' = [hs EXCEPT ![g] = "done"]
  /\ wg' = wg - 1
  /\ UNCHANGED <<scn, size, orchVars, gs, hd, contextData, checks, plugins, status, running, shutdown, mu, gen, ctxDone,
                 dataChannel, startSt, stopSt, unl, cw, proc, nextSeq, recvSeq,
                 ops, ret>>

\* The default check "data_channel": a non-blocking receive from the data
\* channel; the batch received, if any, is discarded.
DataChannelCheck(ch) == IF ch # <<>> THEN Tail(ch) ELSE ch

\* The snapshot Framework.GetStatus returns, without the uptime: the
\* running flag, the plugin counts and role and status of every plugin
GetStatusResult ==
  [running |-> running,
   total_plugins |-> Cardinality(ListPlugins),
   collectors |-> Cardinality(ListPluginsByType("collector")),
   analyzers |-> Cardinality(ListPluginsByType("analyzer")),
   responders |-> Cardinality(ListPluginsByType("responder")),
   agents |-> Cardinality(ListPluginsByType("agent")),
   plugins |-> [n \in {Name(p) : p \in ListPlugins} |->
                  [type |-> Type(plugins[n]), status |-> status[plugins[n]]]]]

\* The type assertion info["status"].(string) of the plugins_healthy check.
\* GetStatus stores plugin.Status() in the map, a value of the named type
\* PluginStatus; asserting it to string does not convert it: the assertion
\* yields ok = false and the empty string, whatever the status is.
StatusAsString(v) ==
  IF v \in PluginStatus THEN [ok |-> FALSE, str |-> ""]
  ELSE [ok |-> TRUE, str |-> v]

\* The default check "plugins_healthy", its loop over the per-plugin map of
\* GetStatus: a plugin is unhealthy when the assertion fails or the
\* asserted string is "error"
UnhealthyPlugins ==
  {n \in DOMAIN GetStatusResult.plugins :
     LET a == StatusAsString(GetStatusResult.plugins[n].status) IN
     ~a.ok \/ a.str = "error"}

\* The checks that fail now.  framework_running and plugins_healthy call
\* GetStatus, which takes the read lock: while Start or Stop holds the lock
\* they do not return and runHealthCheck reports them as timed out.
\* Otherwise framework_running fails unless the running flag is set and
\* plugins_healthy fails when the list of unhealthy plugins is not empty.
\* data_channel never fails; the custom check always fails; the hung
\* check is reported as timed out.
FailingChecks ==
  {c \in checks :
     \/ c \in CustomChecks
     \/ c \in HungChecks
     \/ c \in {"framework_running", "plugins_healthy"} /\ mu # "free"
     \/ c = "framework_running" /\ ~running
     \/ c = "plugins_healthy" /\ UnhealthyPlugins # {}}

\* CheckHealth with a last-one-wins aggregation: a passing check resets
\* the overall status.
RECURSIVE CheckHealth_lastWins(_, _, _)
CheckHealth_lastWins(todo, failed, overall) ==
  IF todo = {} THEN overall
  ELSE LET c == CHOOSE x \in todo : TRUE IN
       CheckHealth_lastWins(todo \ {c}, failed,
                            IF c \in failed THEN "unhealthy" ELSE "healthy")

\* DefaultHealthChecker.CheckHealth, the loop over the checks: todo are the
\* checks still to run, failed those whose result is unhealthy, overall the
\* overall status so far.  (runHealthCheck never yields "degraded".)
RECURSIVE CheckHealth(_, _, _)
CheckHealth(todo, failed, overall) ==
  IF todo = {} THEN overall
  ELSE LET c == CHOOSE x \in todo : TRUE IN
       CheckHealth(todo \ {c}, failed,
                   IF c \in failed THEN "unhealthy" ELSE overall)

\* The checks that have not returned when the timeout of runHealthCheck
\* expires
TimedOut ==
  {c \in checks :
     \/ c \in HungChecks
     \/ c \in {"framework_running", "plugins_healthy"} /\ mu # "free"}

\* runHealthCheck waiting for the result only: a check that does not
\* return yields no result.
runHealthCheck_noTimeout(c) ==
  IF c \in TimedOut THEN [status |-> "none", error |-> ""]
  ELSE IF c \in FailingChecks THEN [status |-> "unhealthy", error |-> "failed"]
  ELSE [status |-> "healthy", error |-> ""]

\* DefaultHealthChecker.runHealthCheck: the select between the result of
\* the check and the expiry of its timeout
runHealthCheck(c) ==
  IF c \in TimedOut THEN [status |-> "unhealthy", error |-> "timeout"]
  ELSE IF c \in FailingChecks THEN [status |-> "unhealthy", error |-> "failed"]
  ELSE [status |-> "healthy", error |-> ""]

\* The HealthStatus CheckHealth returns: the overall status, the checks
\* whose result is unhealthy and the result of every check that was run
HealthStatus ==
  [op |-> "health",
   kind |-> CheckHealth(checks, FailingChecks, "healthy"),
   info |-> {c \in checks : runHealthCheck(c).status = "unhealthy"},
   checks |-> [c \in checks |-> runHealthCheck(c)]]

\* DefaultHealthChecker.RegisterHealthCheck, called with a check that
\* always fails or with one that never returns
RegisterHealthCheck(c) ==
  /\ PollsHealth(scn)
  /\ checks' = checks \cup {c}
  /\ UNCHANGED <<scn, size, orchVars, gs, hd, contextData, plugins, status, running, shutdown, mu, gen,
                 ctxDone, wg, dataChannel, startSt, stopSt, unl, cw, proc, hs,
                 nextSeq, recvSeq, ops, ret>>

\* Framework.GetHealthStatus -> CheckHealth: every registered check is run
\* and the results are aggregated; of the default checks only data_channel
\* changes state.
GetHealthStatus ==
  /\ PollsHealth(scn)
  /\ dataChannel' = IF "data_channel" \in checks
                      THEN DataChannelCheck(dataChannel) ELSE dataChannel
  /\ ret' = HealthStatus
  /\ UNCHANGED <<scn, size, orchVars, gs, hd, contextData, checks, plugins, status, running, shutdown, mu, gen, ctxDone,
                 wg, startSt, stopSt, unl, cw, proc, hs, nextSeq, recvSeq, ops>>

\* GetStatus that receives from the data channel, as the data_channel
\* check does
GetStatus_receiving ==
  /\ ReadsStatus(scn)
  /\ mu = "free"
  /\ dataChannel' = DataChannelCheck(dataChannel)
  /\ ret' = [op |-> "status", kind |-> "nil", info |-> {},
             snapshot |-> GetStatusResult]
  /\ UNCHANGED <<scn, size, orchVars, gs, hd, contextData, checks, plugins, status, running, shutdown, mu,
                 gen, ctxDone, wg, startSt, stopSt, unl, cw, proc, hs,
                 nextSeq, recvSeq, ops>>

\* Framework.GetStatus: the snapshot is built under the read lock
GetStatus ==
  /\ ReadsStatus(scn)
  /\ mu = "free"
  /\ ret' = [op |-> "status", kind |-> "nil", info |-> {},
             snapshot |-> GetStatusResult]
  /\ UNCHANGED <<scn, size, orchVars, gs, hd, contextData, checks, plugins, status, running, shutdown, mu,
                 gen, ctxDone, wg, dataChannel, startSt, stopSt, unl, cw,
                 proc, hs, nextSeq, recvSeq, ops>>

\* The HTTP server of startHealthEndpoints answers while a health-surface
\* worker has not shut it down.
ServerUp == \E g \in Gens : hs[g] = "serving"

\* GET /status (GET /metrics is alike), first part: the handler takes the
\* read lock
HandleStatusLock ==
  /\ ServesStatus(scn)
  /\ ServerUp
  /\ mu = "free"
  /\ hd = "idle"
  /\ hd' = "locked"
  /\ UNCHANGED <<scn, size, orchVars, gs, contextData, checks, plugins, status, running,
                 shutdown, mu, gen, ctxDone, wg, dataChannel, startSt,
                 stopSt, unl, cw, proc, hs, nextSeq, recvSeq, ops, ret>>

\* GET /status, second part: holding the read lock the handler calls
\* GetStatus, which takes the read lock again, and then releases both and
\* answers 200
HandleStatusGet ==
  /\ hd = "locked"
  /\ mu = "free"
  /\ hd' = "idle"
  /\ ret' = [op |-> "GET /status", kind |-> "200", info |-> {},
             snapshot |-> GetStatusResult]
  /\ UNCHANGED <<scn, size, orchVars, gs, contextData, checks, plugins, status, running,
                 shutdown, mu, gen, ctxDone, wg, dataChannel, startSt,
                 stopSt, unl, cw, proc, hs, nextSeq, recvSeq, ops>>

\* GET /health: the flags are read under the read lock
HandleHealth ==
  /\ UsesHttp(scn)
  /\ ServerUp
  /\ mu = "free"
  /\ ret' = Result("GET /health",
                   IF running /\ ~shutdown THEN "200" ELSE "503", {})
  /\ UNCHANGED <<scn, size, orchVars, gs, hd, contextData, checks, plugins, status, running, shutdown, mu, gen, ctxDone,
                 wg, dataChannel, startSt, stopSt, unl, cw, proc, hs, nextSeq,
                 recvSeq, ops>>

\* GET /ready: the flags and the plugin count are read under the read lock
HandleReady ==
  /\ UsesHttp(scn)
  /\ ServerUp
  /\ mu = "free"
  /\ ret' = Result("GET /ready",
                   IF running /\ ~shutdown /\ GetPluginCount > 0
                     THEN "200" ELSE "503", {})
  /\ UNCHANGED <<scn, size, orchVars, gs, hd, contextData, checks, plugins, status, running, shutdown, mu, gen, ctxDone,
                 wg, dataChannel, startSt, stopSt, unl, cw, proc, hs, nextSeq,
                 recvSeq, ops>>

\* ------------------------------------------------------------------ queries
\* AIAgent.ProcessQuery: refused unless the agent is running; apiOk is the
\* outcome of the call to the AI API.  The errors are not FrameworkErrors.
ProcessQuery(st, apiOk) ==
  IF st # "running" THEN "other"
  ELSE IF apiOk THEN "nil" ELSE "other"

\* QueryAgent without the type assertion: ProcessQuery is called on
\* whatever plugin carries the name
QueryAgentResult_anyPlugin(n, apiOk) ==
  IF GetPlugin(n) = NoPlugin THEN Result("query", "plugin", {})
  ELSE Result("query", ProcessQuery(status[GetPlugin(n)], apiOk),
              {GetPlugin(n)})

\* Framework.QueryAgent under the read lock: what it returns for the name n
QueryAgentResult(n, apiOk) ==
  IF GetPlugin(n) = NoPlugin THEN Result("query", "plugin", {})
  ELSE IF Type(GetPlugin(n)) # "agent" THEN Result("query", "plugin", {})
  ELSE Result("query", ProcessQuery(status[GetPlugin(n)], apiOk),
              {GetPlugin(n)})

\* Framework.QueryAgent
QueryAgent(n) ==
  /\ Queries(scn)
  /\ mu = "free"
  /\ \E apiOk \in BOOLEAN : ret' = QueryAgentResult(n, apiOk)
  /\ UNCHANGED <<scn, size, orchVars, gs, hd, contextData, checks, plugins, status, running, shutdown, mu, gen, ctxDone,
                 wg, dataChannel, startSt, stopSt, unl, cw, proc, hs, nextSeq,
                 recvSeq, ops>>

\* Framework.QueryDefaultAgent: what it returns with the configured
\* default agent def: a configuration error without one, otherwise what
\* QueryAgent returns for that name
QueryDefaultAgentResult(def, apiOk) ==
  IF def = "" THEN Result("query", "configuration", {})
  ELSE QueryAgentResult(def, apiOk)

\* Framework.QueryDefaultAgent
QueryDefaultAgent ==
  /\ Queries(scn)
  /\ DefaultAgent(scn) # "" => mu = "free"
  /\ \E apiOk \in BOOLEAN :
       ret' = QueryDefaultAgentResult(DefaultAgent(scn), apiOk)
  /\ UNCHANGED <<scn, size, orchVars, gs, hd, contextData, checks, plugins, status, running, shutdown, mu, gen, ctxDone,
                 wg, dataChannel, startSt, stopSt, unl, cw, proc, hs, nextSeq,
                 recvSeq, ops>>

\* -------------------------------------------------------- processor worker
\* Outcomes of one analyzer on a batch: CanAnalyze false, Analyze failing,
\* Analyze returning nil, Analyze returning an analysis.
AnalyzeOutcomes ==
  [kind : {"cannot", "error", "nil"}, an : {NoAnalysis}]
    \cup [kind : {"analysis"}, an : Analyses]

\* processData returns: the processor is back at its select.  (err tells
\* whether the plugin call made last returned an error.)
BackToSelect(pr) == [ProcIdle EXCEPT !.pc = "recv", !.err = pr.err]

\* processData after the agents loop: the analyzers are enumerated; with
\* none registered processData returns.
EnterAnalyzers(pr) ==
  LET as == ListPluginsByType("analyzer") IN
  IF as = {} THEN BackToSelect(pr)
  ELSE [pr EXCEPT !.pc = "analyzers", !.todo = as]

\* processData after one analyzer is done with: next analyzer, or return.
NextAnalyzer(pr) ==
  IF pr.todo = {} THEN BackToSelect(pr)
  ELSE [pr EXCEPT !.pc = "analyzers", !.an = NoAnalysis, !.rtodo = {},
                  !.cur = NoPlugin, !.can = FALSE]

\* processData after one responder is done with: next responder, or the
\* next analyzer.
NextResponder(pr) ==
  IF pr.rtodo = {} THEN NextAnalyzer(pr)
  ELSE [pr EXCEPT !.pc = "responders"]

\* dataProcessor, select: case <-ctx.Done()
ProcCtxDone(g) ==
  /\ proc[g].pc = "recv"
  /\ ctxDone[g]
  /\ proc' = [proc EXCEPT ![g].pc = "done", ![g].err = FALSE]
  /\ wg' = wg - 1
  /\ UNCHANGED <<scn, size, orchVars, gs, hd, contextData, checks, plugins, status, running, shutdown, mu, gen, ctxDone,
                 dataChannel, startSt, stopSt, unl, cw, hs, nextSeq, recvSeq,
                 ops, ret>>

\* dataProcessor, select: case data := <-f.dataChannel; processData starts
\* by enumerating the agents.
ProcRecv(g) ==
  /\ proc[g].pc = "recv"
  /\ dataChannel # <<>>
  /\ dataChannel' = Tail(dataChannel)
  /\ recvSeq' = [recvSeq EXCEPT ![Head(dataChannel).src] =
                   Head(dataChannel).seq]
  /\ LET ags == ListPluginsByType("agent")
         pr == [proc[g] EXCEPT !.err = FALSE, !.data = Head(dataChannel),
                               !.ags = ags] IN
       proc' = [proc EXCEPT ![g] =
                  IF ags = {} THEN EnterAnalyzers(pr)
                  ELSE [pr EXCEPT !.pc = "agents", !.todo = ags]]
  /\ UNCHANGED <<scn, size, orchVars, gs, hd, contextData, checks, plugins, status, running, shutdown, mu, gen, ctxDone,
                 wg, startSt, stopSt, unl, cw, hs, nextSeq, ops, ret>>

\* An agents loop whose SetContext keeps the snapshot an agent already has
ProcSetContext_keepsFirst(g, a) ==
  /\ proc[g].pc = "agents"
  /\ a \in proc[g].todo
  /\ LET pr == [proc[g] EXCEPT !.todo = @ \ {a}] IN
       proc' = [proc EXCEPT ![g] =
                  IF pr.todo = {} THEN EnterAnalyzers(pr) ELSE pr]
  /\ contextData' = [contextData EXCEPT ![a] =
                       IF @ = NoBatch THEN proc[g].data ELSE @]
  /\ UNCHANGED <<scn, size, orchVars, gs, hd, checks, plugins, status, running, shutdown, mu, gen, ctxDone,
                 wg, dataChannel, startSt, stopSt, unl, cw, hs, nextSeq,
                 recvSeq, ops, ret>>

\* processData, agents loop: agent.SetContext(data)
ProcSetContext(g, a) ==
  /\ proc[g].pc = "agents"
  /\ a \in proc[g].todo
  /\ LET pr == [proc[g] EXCEPT !.todo = @ \ {a}] IN
       proc' = [proc EXCEPT ![g] =
                  IF pr.todo = {} THEN EnterAnalyzers(pr) ELSE pr]
  /\ contextData' = [contextData EXCEPT ![a] = proc[g].data]
  /\ UNCHANGED <<scn, size, orchVars, gs, hd, checks, plugins, status, running, shutdown, mu, gen, ctxDone,
                 wg, dataChannel, startSt, stopSt, unl, cw, hs, nextSeq,
                 recvSeq, ops, ret>>

\* An analyzers loop that gives the batch up when Analyze returns an error
ProcAnalyze_errorReturns(g, a) ==
  /\ proc[g].pc = "analyzers"
  /\ a \in proc[g].todo
  /\ \E out \in AnalyzeOutcomes :
       LET pr == [proc[g] EXCEPT !.todo = @ \ {a},
                                 !.err = (out.kind = "error")]
           rs == ListPluginsByType("responder") IN
       proc' = [proc EXCEPT ![g] =
            IF out.kind = "analysis"
              THEN NextResponder([pr EXCEPT !.an = out.an, !.rtodo = rs])
              ELSE IF out.kind = "error" THEN BackToSelect(pr)
              ELSE NextAnalyzer(pr)]
  /\ UNCHANGED <<scn, size, orchVars, gs, hd, contextData, checks, plugins, status, running, shutdown, mu, gen, ctxDone,
                 wg, dataChannel, startSt, stopSt, unl, cw, hs, nextSeq,
                 recvSeq, ops, ret>>

\* processData, analyzers loop: CanAnalyze, Analyze, and for a non-nil
\* analysis the enumeration of the responders; an error of Analyze is
\* logged and the loop continues.
ProcAnalyze(g, a) ==
  /\ proc[g].pc = "analyzers"
  /\ a \in proc[g].todo
  /\ \E out \in AnalyzeOutcomes :
       LET pr == [proc[g] EXCEPT !.todo = @ \ {a},
                                 !.err = (out.kind = "error")]
           rs == ListPluginsByType("responder") IN
       proc' = [proc EXCEPT ![g] =
            IF out.kind = "analysis"
              THEN NextResponder([pr EXCEPT !.an = out.an, !.rtodo = rs])
              ELSE NextAnalyzer(pr)]
  /\ UNCHANGED <<scn, size, orchVars, gs, hd, contextData, checks, plugins, status, running, shutdown, mu, gen, ctxDone,
                 wg, dataChannel, startSt, stopSt, unl, cw, hs, nextSeq,
                 recvSeq, ops, ret>>

\* A responders loop that calls Respond whatever CanHandle returned
ProcCanHandle_always(g, r) ==
  /\ proc[g].pc = "responders"
  /\ r \in proc[g].rtodo
  /\ \E can \in BOOLEAN :
       proc' = [proc EXCEPT ![g] =
                  [@ EXCEPT !.rtodo = @ \ {r}, !.cur = r, !.can = can,
                            !.err = FALSE, !.pc = "respond"]]
  /\ UNCHANGED <<scn, size, orchVars, gs, hd, contextData, checks, plugins, status, running, shutdown, mu, gen, ctxDone,
                 wg, dataChannel, startSt, stopSt, unl, cw, hs, nextSeq,
                 recvSeq, ops, ret>>

\* processData, responders loop: responder.CanHandle(analysis); can is
\* what it returns.  Respond follows only when it returned true; otherwise
\* the loop continues with the next responder.
ProcCanHandle(g, r) ==
  /\ proc[g].pc = "responders"
  /\ r \in proc[g].rtodo
  /\ \E can \in BOOLEAN :
       LET pr == [proc[g] EXCEPT !.rtodo = @ \ {r}, !.cur = r, !.can = can,
                                 !.err = FALSE] IN
       proc' = [proc EXCEPT ![g] =
                  IF can THEN [pr EXCEPT !.pc = "respond"]
                  ELSE NextResponder(pr)]
  /\ UNCHANGED <<scn, size, orchVars, gs, hd, contextData, checks, plugins, status, running, shutdown, mu, gen, ctxDone,
                 wg, dataChannel, startSt, stopSt, unl, cw, hs, nextSeq,
                 recvSeq, ops, ret>>

\* processData, responders loop: responder.Respond(ctx, analysis); its
\* error is logged, and the loop goes on.
ProcRespond(g) ==
  /\ proc[g].pc = "respond"
  /\ \E err \in BOOLEAN :
       proc' = [proc EXCEPT ![g] =
                  NextResponder([@ EXCEPT !.can = FALSE, !.err = err])]
  /\ UNCHANGED <<scn, size, orchVars, gs, hd, contextData, checks, plugins, status, running, shutdown, mu, gen, ctxDone,
                 wg, dataChannel, startSt, stopSt, unl, cw, hs, nextSeq,
                 recvSeq, ops, ret>>

\* ---------------------------------------------------------- specification
Next ==
  \/ \E p \in Plugins : LoadPlugin(p)
  \/ \E n \in Names : UnloadGet(n)
  \/ UnloadUnregister
  \/ StartPlugins
  \/ StartSpawn
  \/ CancelCaller
  \/ StopBegin
  \/ StopWaitDone
  \/ StopTimeout
  \/ \E g \in Gens, c \in Collectors : CWCtxDone(g, c)
  \/ \E g \in Gens, c \in Collectors : CWTick(g, c)
  \/ \E g \in Gens, c \in Collectors : CWCollect(g, c)
  \/ \E g \in Gens, c \in Collectors : CWSend(g, c)
  \/ \E g \in Gens, c \in Collectors : CWDrop(g, c)
  \/ \E g \in Gens : HSExit(g)
  \/ \E c \in CustomChecks \cup HungChecks : RegisterHealthCheck(c)
  \/ GetHealthStatus
  \/ GetStatus
  \/ HandleStatusLock
  \/ HandleStatusGet
  \/ \E w \in {"startLock", "stopLock"} : LockPending(w)
  \/ HandleHealth
  \/ HandleReady
  \/ \E n \in Names : QueryAgent(n)
  \/ QueryDefaultAgent
  \/ \E g \in Gens : ProcCtxDone(g)
  \/ \E g \in Gens : ProcRecv(g)
  \/ \E g \in Gens, a \in Agents : ProcSetContext(g, a)
  \/ \E g \in Gens, a \in Analyzers : ProcAnalyze(g, a)
  \/ \E g \in Gens, r \in Responders : ProcCanHandle(g, r)
  \/ \E g \in Gens : ProcRespond(g)

Spec == Init /\ [][Next]_vars

\* The shutdown runs: the configuration with two collectors and a channel
\* of one slot, no LoadPlugin / UnloadPlugin calls and no health requests.
InitShutdown == Init /\ scn = "collectors" /\ size = 1

\* The Start calls of those runs
ShutdownGens == 1..StartsOf("collectors")

NextShutdown ==
  \/ StartPlugins
  \/ StartSpawn
  \/ CancelCaller
  \/ StopBegin
  \/ StopWaitDone
  \/ StopTimeout
  \/ \E g \in Gens, c \in Collectors : CWCtxDone(g, c)
  \/ \E g \in Gens, c \in Collectors : CWTick(g, c)
  \/ \E g \in Gens, c \in Collectors : CWCollect(g, c)
  \/ \E g \in Gens, c \in Collectors : CWSend(g, c)
  \/ \E g \in Gens, c \in Collectors : CWDrop(g, c)
  \/ \E g \in Gens : HSExit(g)
  \/ \E g \in Gens : ProcCtxDone(g)
  \/ \E g \in Gens : ProcRecv(g)
  \/ \E g \in Gens, a \in Analyzers : ProcAnalyze(g, a)

\* The goroutines are scheduled and the calls in progress go on: a step
\* that stays possible is taken.  A select picks among its ready cases at
\* random, so a case that is ready every time the select is reached is
\* taken in the end.
Fairness ==
  /\ WF_vars(StartSpawn)
  /\ WF_vars(StopWaitDone)
  /\ WF_vars(StopTimeout)
  /\ \A g \in ShutdownGens : WF_vars(HSExit(g))
  /\ \A g \in ShutdownGens : SF_vars(ProcCtxDone(g))
  /\ \A g \in ShutdownGens, a \in Analyzers : WF_vars(ProcAnalyze(g, a))
  /\ \A g \in ShutdownGens, c \in Collectors :
       /\ SF_vars(CWCtxDone(g, c))
       /\ WF_vars(CWCollect(g, c))
       /\ WF_vars(CWDrop(g, c))

ShutdownSpec == InitShutdown /\ [][NextShutdown]_vars /\ Fairness

\* ------------------------------------------- the plugins, call by call
\* The calls of the Plugin interface on the shipped plugins, with every
\* assignment to the status field a step of its own.  Start and Stop hold
\* the plugin's lock from entry to return, so a call enters only when no
\* other call is between its two assignments.
PluginLocked(p) == status[p] \in {"starting", "stopping"}

\* The state of the engine, to say that the orchestrator leaves it alone
frameworkVars ==
  <<scn, size, gs, hd, contextData, checks, plugins, status, running,
    shutdown, mu, gen, ctxDone, wg, dataChannel, startSt, stopSt, unl, cw,
    proc, hs, nextSeq, recvSeq, ops, ret>>

\* The variables the plugin calls leave alone
engineVars ==
  <<scn, size, orchVars, gs, hd, contextData, checks, plugins, running, shutdown, mu, gen, ctxDone, wg,
    dataChannel, startSt, stopSt, unl, cw, proc, hs, nextSeq, recvSeq, ops>>

\* Configure: sets the configuration fields, not the status
PluginConfigure(p) ==
  /\ ~PluginLocked(p)
  /\ ret' = Result("plugin configure", "nil", {p})
  /\ UNCHANGED status
  /\ UNCHANGED engineVars

\* Start, refused: the plugin is running
PluginStartRefused(p) ==
  /\ status[p] = "running"
  /\ ret' = Result("plugin start", "other", {p})
  /\ UNCHANGED status
  /\ UNCHANGED engineVars

\* Start, first assignment: whatever the status, unless it is running
PluginStarting(p) ==
  /\ ~PluginLocked(p)
  /\ status[p] # "running"
  /\ status' = [status EXCEPT ![p] = "starting"]
  /\ UNCHANGED ret
  /\ UNCHANGED engineVars

\* Start, second assignment: running, or error when the connectivity test
\* of a collector or an agent fails
PluginStarted(p, healthy) ==
  /\ status[p] = "starting"
  /\ healthy \/ CanFailStart(p)
  /\ status' = [status EXCEPT ![p] = PluginStart("starting", healthy)[1]]
  /\ ret' = Result("plugin start", IF healthy THEN "nil" ELSE "other", {p})
  /\ UNCHANGED engineVars

\* Stop, refused: the plugin is not running
PluginStopRefused(p) ==
  /\ ~PluginLocked(p)
  /\ status[p] # "running"
  /\ ret' = Result("plugin stop", "other", {p})
  /\ UNCHANGED status
  /\ UNCHANGED engineVars

\* Stop, first assignment
PluginStopping(p) ==
  /\ status[p] = "running"
  /\ status' = [status EXCEPT ![p] = "stopping"]
  /\ UNCHANGED ret
  /\ UNCHANGED engineVars

\* Stop, second assignment
PluginStopped(p) ==
  /\ status[p] = "stopping"
  /\ status' = [status EXCEPT ![p] = PluginStop("running")[1]]
  /\ ret' = Result("plugin stop", "nil", {p})
  /\ UNCHANGED engineVars

InitPlugins == Init /\ scn = "registry"

NextPlugins ==
  \E p \in Plugins :
    \/ PluginConfigure(p)
    \/ PluginStartRefused(p)
    \/ PluginStarting(p)
    \/ \E healthy \in BOOLEAN : PluginStarted(p, healthy)
    \/ PluginStopRefused(p)
    \/ PluginStopping(p)
    \/ PluginStopped(p)

PluginSpec == InitPlugins /\ [][NextPlugins]_vars

\* ------------------------------------------------------------------------
\* GetStatus next to LoadPlugin and UnloadPlugin.  GetStatus holds the read
\* lock of the engine, but LoadPlugin and UnloadPlugin take no engine lock
\* and the registry takes its own lock once per call, so the registry can
\* change between the reads of one GetStatus call.  Here the call is taken
\* one registry read at a time.

\* The plugin types in the order GetStatus counts them
PluginTypes == {"collector", "analyzer", "responder", "agent"}

\* DefaultPluginRegistry.GetPluginCountByType
GetPluginCountByType(t) == Cardinality(ListPluginsByType(t))

\* GetStatus, first part: the read lock is taken, ListPlugins is called and
\* the per-plugin map and total_plugins are computed from the list
GetStatusList ==
  /\ gs.pc = "idle"
  /\ mu = "free"
  /\ gs' = [pc |-> "collector",
            snapshot |->
              [running |-> running,
               total_plugins |-> Cardinality(ListPlugins),
               collector |-> 0, analyzer |-> 0, responder |-> 0, agent |-> 0,
               plugins |-> [n \in {Name(p) : p \in ListPlugins} |->
                              [type |-> Type(plugins[n]),
                               status |-> status[plugins[n]]]]]]
  /\ UNCHANGED <<scn, size, orchVars, hd, contextData, checks, plugins, status, running,
                 shutdown, mu, gen, ctxDone, wg, dataChannel, startSt, stopSt,
                 unl, cw, proc, hs, nextSeq, recvSeq, ops, ret>>

\* GetStatus, the four counts: one GetPluginCountByType call each, in the
\* order collectors, analyzers, responders, agents
GetStatusCount(t) ==
  /\ gs.pc = t
  /\ t \in PluginTypes
  /\ gs' = [pc |-> CASE t = "collector" -> "analyzer"
                     [] t = "analyzer" -> "responder"
                     [] t = "responder" -> "agent"
                     [] OTHER -> "return",
            snapshot |-> [gs.snapshot EXCEPT ![t] = GetPluginCountByType(t)]]
  /\ UNCHANGED <<scn, size, orchVars, hd, contextData, checks, plugins, status, running,
                 shutdown, mu, gen, ctxDone, wg, dataChannel, startSt, stopSt,
                 unl, cw, proc, hs, nextSeq, recvSeq, ops, ret>>

\* GetStatus returns the map it built and releases the read lock
GetStatusReturn ==
  /\ gs.pc = "return"
  /\ ret' = [op |-> "status", kind |-> "nil", info |-> {},
             snapshot |->
               [running |-> gs.snapshot.running,
                total_plugins |-> gs.snapshot.total_plugins,
                collectors |-> gs.snapshot.collector,
                analyzers |-> gs.snapshot.analyzer,
                responders |-> gs.snapshot.responder,
                agents |-> gs.snapshot.agent,
                plugins |-> gs.snapshot.plugins]]
  /\ gs' = GsIdle
  /\ UNCHANGED <<scn, size, orchVars, hd, contextData, checks, plugins, status, running,
                 shutdown, mu, gen, ctxDone, wg, dataChannel, startSt, stopSt,
                 unl, cw, proc, hs, nextSeq, recvSeq, ops>>

InitStatus == Init /\ scn = "registry"

NextStatus ==
  \/ \E p \in Plugins : LoadPlugin(p)
  \/ \E n \in Names : UnloadGet(n)
  \/ UnloadUnregister
  \/ GetStatusList
  \/ \E t \in PluginTypes : GetStatusCount(t)
  \/ GetStatusReturn

StatusSpec == InitStatus /\ [][NextStatus]_vars

\* ------------------------------------------------------------------------
\* The workflow orchestrator: one workflow, its steps executed in order by
\* the goroutine every StartWorkflow call starts.

\* AgentOrchestrator.RegisterAgent
RegisterAgent(a) ==
  /\ agents' = agents \cup {a}
  /\ UNCHANGED <<workflow, ew, wctx>>
  /\ UNCHANGED frameworkVars

\* AgentOrchestrator.StartWorkflow: an unknown id is refused; otherwise the
\* workflow is set running and a goroutine executing it is started
StartWorkflow(id) ==
  /\ \E r \in 1..MaxRuns :
       /\ ew[r].pc = "none"
       /\ \A q \in 1..(r - 1) : ew[q].pc # "none"
       /\ IF id # "wf"
            THEN /\ ret' = Result("execute-workflow", "plugin", {})
                 /\ UNCHANGED <<workflow, ew>>
            ELSE /\ workflow' = [workflow EXCEPT !.State = "running"]
                 /\ ew' = [ew EXCEPT ![r] = [pc |-> "select", i |-> 1]]
                 /\ ret' = Ok
  /\ UNCHANGED <<agents, wctx>>
  /\ UNCHANGED <<scn, size, gs, hd, contextData, checks, plugins, status,
                 running, shutdown, mu, gen, ctxDone, wg, dataChannel,
                 startSt, stopSt, unl, cw, proc, hs, nextSeq, recvSeq, ops>>

\* The caller cancels the context it gave to StartWorkflow
CancelWorkflow ==
  /\ ~wctx
  /\ \E r \in 1..MaxRuns : ew[r].pc # "none"
  /\ wctx' = TRUE
  /\ UNCHANGED <<workflow, agents, ew>>
  /\ UNCHANGED frameworkVars

\* executeWorkflow, the select at the head of the loop body: a cancelled
\* context ends the workflow as cancelled; otherwise executeStep is entered
\* and sets the step running
EWSelect(r) ==
  /\ ew[r].pc = "select"
  /\ IF wctx
       THEN /\ workflow' = [workflow EXCEPT !.State = "cancelled"]
            /\ ew' = [ew EXCEPT ![r].pc = "done"]
       ELSE /\ workflow' = [workflow EXCEPT
                              !.Steps[ew[r].i].Status = "running"]
            /\ ew' = [ew EXCEPT ![r].pc = "lookup"]
  /\ UNCHANGED <<agents, wctx>>
  /\ UNCHANGED frameworkVars

\* executeStep, the lookup of the step's agent: when it is not registered
\* executeStep returns the error and executeWorkflow sets the workflow failed
EWLookup(r) ==
  /\ ew[r].pc = "lookup"
  /\ IF workflow.Steps[ew[r].i].Agent \notin agents
       THEN /\ workflow' = [workflow EXCEPT !.State = "failed"]
            /\ ew' = [ew EXCEPT ![r].pc = "done"]
       ELSE /\ ew' = [ew EXCEPT ![r].pc = "process"]
            /\ UNCHANGED workflow
  /\ UNCHANGED <<agents, wctx>>
  /\ UNCHANGED frameworkVars

\* executeStep, agent.ProcessMessage under the step's timeout: on an error
\* the step and the workflow are set failed; otherwise the step is set
\* completed and the loop goes on, setting the workflow completed after
\* the last step
EWProcess(r) ==
  /\ ew[r].pc = "process"
  /\ \E err \in BOOLEAN :
       IF err
         THEN /\ workflow' = [workflow EXCEPT
                                !.Steps[ew[r].i].Status = "failed",
                                !.State = "failed"]
              /\ ew' = [ew EXCEPT ![r].pc = "done"]
         ELSE IF ew[r].i = Len(workflow.Steps)
           THEN /\ workflow' = [workflow EXCEPT
                                  !.Steps[ew[r].i].Status = "completed",
                                  !.State = "completed"]
                /\ ew' = [ew EXCEPT ![r].pc = "done"]
           ELSE /\ workflow' = [workflow EXCEPT
                                  !.Steps[ew[r].i].Status = "completed"]
                /\ ew' = [ew EXCEPT ![r] = [pc |-> "select", i |-> @.i + 1]]
  /\ UNCHANGED <<agents, wctx>>
  /\ UNCHANGED frameworkVars

\* AddWorkflow was called with one workflow on a new orchestrator
InitWorkflow ==
  /\ InitEngine
  /\ scn = "registry"
  /\ InitOrchestrator
  /\ workflow \in Workflows

NextWorkflow ==
  \/ \E a \in StepAgents : RegisterAgent(a)
  \/ \E id \in {"wf", "missing"} : StartWorkflow(id)
  \/ CancelWorkflow
  \/ \E r \in 1..MaxRuns : EWSelect(r) \/ EWLookup(r) \/ EWProcess(r)

WorkflowSpec == InitWorkflow /\ [][NextWorkflow]_vars

TypeOK ==
  /\ workflow.State \in WorkflowStates
  /\ Len(workflow.Steps) <= MaxSteps
  /\ \A i \in DOMAIN workflow.Steps :
       /\ workflow.Steps[i].Agent \in StepAgents
       /\ workflow.Steps[i].Status \in StepStatuses
  /\ agents \subseteq StepAgents
  /\ ew \in [1..MaxRuns ->
               [pc : {"none", "select", "lookup", "process", "done"},
                i : 0..MaxSteps]]
  /\ wctx \in BOOLEAN
  /\ plugins \in [Names -> Plugins \cup {NoPlugin}]
  /\ status \in [Plugins -> PluginStatus]
  /\ running \in BOOLEAN /\ shutdown \in BOOLEAN
  /\ mu \in {"free", "start", "stop", "startLock", "stopLock"}
  /\ hd \in {"idle", "locked"}
  /\ gs.pc \in {"idle", "return"} \cup PluginTypes
  /\ gen \in 0..MaxStarts
  /\ contextData \in [Agents -> {NoBatch} \cup
                                  [src : Collectors, seq : 1..MaxBatches]]
  /\ wg \in 0..(MaxStarts * (Cardinality(Collectors) + 2))

\* ------------------------------------------------------------------ claims
\* Steps of a processor worker, recognised by its position
AgentCallStep(g) == proc[g].pc = "agents" /\ proc'[g] # proc[g]

AnalyzerCallStep(g) == proc[g].pc = "analyzers" /\ proc'[g] # proc[g]

CanHandleStep(g) == proc[g].pc = "responders" /\ proc'[g] # proc[g]

RespondStep(g) == proc[g].pc = "respond" /\ proc'[g] # proc[g]

\* C1: every plugin the registry holds is the one GetPlugin returns for its
\* name, and no two registered plugins share a name.
C1_RegistryLookup ==
  /\ \A p \in ListPlugins : GetPlugin(Name(p)) = p
  /\ \A p, q \in ListPlugins : Name(p) = Name(q) => p = q

\* C1 witness: r2 is registered under the name it shares with c2, and the
\* last call (a registration of c2 or an unregistration) failed.
C1_Witness ==
  /\ scn = "registry"
  /\ plugins["c2"] = "r2"
  /\ Cardinality(ListPlugins) >= 2
  /\ ret.kind = "plugin"

\* C2: the processor calls SetContext, CanAnalyze/Analyze and
\* CanHandle/Respond only on plugins whose status is running.
C2_OnlyRunningPluginsUsed ==
  [][\A g \in Gens :
       /\ AgentCallStep(g) \/ AnalyzerCallStep(g) =>
            \A p \in proc[g].todo \ proc'[g].todo : status[p] = "running"
       /\ CanHandleStep(g) =>
            \A p \in proc[g].rtodo \ proc'[g].rtodo : status[p] = "running"
       /\ RespondStep(g) => status[proc[g].cur] = "running"]_vars

\* C3: when Stop returns on a running engine no collector worker, processor
\* worker or health-surface worker is still running, and every registered
\* plugin is stopped or in error.
C3_StopLeavesNoWorker ==
  [][stopSt = "wait" /\ stopSt' = "idle" =>
       /\ LiveCollectorWorkers' = {}
       /\ LiveProcessors' = {}
       /\ LiveHealthWorkers' = {}
       /\ \A p \in ListPlugins' : status'[p] \in {"stopped", "error"}]_vars

\* C5: batches are put on the data channel only by collector workers and
\* taken from it only by the processor worker.
C5_ChannelOwnership ==
  [][dataChannel' # dataChannel =>
       \/ \E g \in Gens, c \in Collectors :
            /\ cw[g][c] = "send" /\ cw'[g][c] = "select"
            /\ Len(dataChannel') = Len(dataChannel) + 1
       \/ \E g \in Gens :
            /\ proc[g].pc = "recv" /\ proc'[g].pc # "recv"
            /\ dataChannel' = Tail(dataChannel)]_vars

\* C6: the processor receives the batches of one collector in the order in
\* which they were sent: the number of the last batch received from a
\* collector never decreases.
C6_PerCollectorOrder ==
  [][\A c \in Collectors : recvSeq'[c] >= recvSeq[c]]_vars

\* C6 witness: with room for two batches, both batches of c1 and a batch
\* of c2 have been received.
C6_Witness ==
  /\ size = 2
  /\ recvSeq["c1"] = 2
  /\ recvSeq["c2"] >= 1

\* C7: the channel never holds more than data_channel_size batches, and no
\* batch that was sent is lost: until the processor has received it, it is
\* in the channel.
C7_BoundedAndDelivered ==
  /\ Len(dataChannel) <= size
  /\ \A c \in Collectors : \A k \in (recvSeq[c] + 1)..nextSeq[c] :
       \E i \in 1..Len(dataChannel) : dataChannel[i] = [src |-> c, seq |-> k]

\* C9: an analysis handed to Respond has a non-empty DataPoints list and a
\* confidence within [0,1].
C9_ValidAnalysisSurfaced ==
  \A g \in Gens :
    proc[g].pc = "respond" =>
      /\ proc[g].an.dp > 0
      /\ proc[g].an.conf >= 0 /\ proc[g].an.conf <= 10

\* C4: a collector worker blocked in its send on the full channel leaves
\* when the context is cancelled, without sending the batch it drops, and
\* Stop, once it waits for the workers, returns.
C4_BlockedProducersExit ==
  /\ \A g \in ShutdownGens, c \in Collectors :
       (cw[g][c] = "send" /\ Len(dataChannel) = size /\ ctxDone[g])
         ~> (cw[g][c] = "done")
  /\ (stopSt = "wait") ~> (stopSt = "idle")
  /\ [][\A g \in Gens, c \in Collectors :
          cw[g][c] = "send" /\ cw'[g][c] = "done" =>
            ctxDone[g] /\ dataChannel' = dataChannel /\ nextSeq' = nextSeq]_vars

\* C4 witness: Stop waits, the channel is full, one collector worker has
\* left and the other is still blocked in its send.
C4_Witness ==
  /\ stopSt = "wait"
  /\ Len(dataChannel) = size
  /\ cw[1]["c1"] = "done"
  /\ cw[1]["c2"] = "send"

\* C8: Respond is called on a responder exactly when its CanHandle returned
\* true for the analysis, once per analysis, and every responder registered
\* when the analysis was produced is asked.
C8_RespondIffCanHandle ==
  [][\A g \in Gens :
       /\ CanHandleStep(g) =>
            /\ Cardinality(proc[g].rtodo \ proc'[g].rtodo) = 1
            /\ proc'[g].pc = "respond" <=> proc'[g].can
            /\ proc'[g].pc = "respond" =>
                 proc'[g].cur \in proc[g].rtodo \ proc'[g].rtodo
       /\ proc'[g].pc = "respond" /\ proc'[g] # proc[g] =>
            CanHandleStep(g) /\ proc'[g].can /\ proc'[g].an # NoAnalysis
       /\ RespondStep(g) =>
            /\ proc'[g].pc # "respond"
            /\ proc[g].cur \notin proc'[g].rtodo
            /\ proc'[g].rtodo \subseteq proc[g].rtodo
       /\ AnalyzerCallStep(g) /\ proc'[g].pc = "responders" =>
            proc'[g].rtodo = ListPluginsByType("responder")
       /\ proc[g].pc = "responders" /\ proc'[g].pc \notin {"responders", "respond"} =>
            Cardinality(proc[g].rtodo) = 1
       /\ RespondStep(g) /\ proc'[g].pc # "responders" =>
            proc[g].rtodo = {}]_vars

\* C8 witness: with two responders registered, the first was asked and the
\* second has accepted the analysis and is about to be called.
C8_Witness ==
  /\ Cardinality(ListPluginsByType("responder")) = 2
  /\ proc[1].pc = "respond"
  /\ proc[1].can
  /\ proc[1].rtodo = {}

\* C10: when Start of a plugin fails during Start of the engine, Start is
\* still called on every other registered plugin, and Start returns nil with
\* the running flag set, the workers spawned, and the failed plugin in
\* status error.
C10_FailedStartTolerated ==
  [][/\ startSt.pc = "idle" /\ startSt'.pc = "spawn" =>
          \A p \in startSt'.snap \ startSt'.failed : status'[p] = "running"
     /\ startSt.pc = "spawn" /\ startSt'.pc = "idle" =>
          /\ running' /\ ret' = Ok
          /\ proc'[gen].pc = "recv" /\ hs'[gen] = "serving"
          /\ \A c \in ListPluginsByType("collector") : cw'[gen][c] = "select"
          /\ \A p \in startSt.failed : status'[p] = "error"]_vars

\* A LoadPlugin step: the call is counted, no UnloadPlugin call starts or
\* fails
LoadStep == ops' = ops + 1 /\ unl' = unl /\ ret'.op # "unload"

\* The plugins that have an entry in the registry reg
Registered(reg) == {reg[n] : n \in {m \in Names : reg[m] # NoPlugin}}

\* C11: Start on a running engine and Stop on an engine that is not running
\* return an internal error and change nothing: Start goes ahead only when
\* the engine is not running, Stop only when it is, and a step that returns
\* the internal error leaves the flags, the context, the workers and the
\* plugins as they were.
C11_RefusalsChangeNothing ==
  [][/\ gen' # gen => ~running
     /\ stopSt = "idle" /\ stopSt' = "wait" => running
     /\ ret' # ret /\ ret'.kind = "internal" =>
          /\ ret'.op = "start" => running
          /\ ret'.op = "stop" => ~running
          /\ UNCHANGED <<scn, size, orchVars, gs, hd, contextData, plugins, status, running, shutdown, mu,
                         gen, ctxDone, wg, dataChannel, startSt, stopSt, unl,
                         cw, proc, hs, nextSeq, recvSeq, ops, checks>>]_vars

\* C11 witness: the engine runs, its Start has returned, and a further Start
\* was refused.
C11_Witness ==
  /\ running
  /\ startSt.pc = "idle"
  /\ Cardinality(LiveProcessors) = 1
  /\ ret = Result("start", "internal", {})

\* C12: a registration under a name already registered fails with a
\* validation error and leaves the registry unchanged.
C12_DuplicateIsValidationError ==
  [][ret' # ret /\ ret'.op = "load" =>
       ret'.kind = "validation" /\ plugins' = plugins]_vars

\* C13: LoadPlugin never starts the plugin nor changes any plugin status,
\* whether the engine runs or not; when it succeeds exactly the plugin is
\* added under its name, when the name is taken the registry is unchanged.
C13_LoadNeverStarts ==
  [][LoadStep =>
       /\ status' = status
       /\ ret'.op = "load" => plugins' = plugins
       /\ ret' = Ok =>
            \E p \in Plugins :
              /\ plugins[Name(p)] = NoPlugin
              /\ plugins' = [plugins EXCEPT ![Name(p)] = p]]_vars

\* C13 witness: the agent was loaded into the running engine and is
\* registered with status stopped.
C13_Witness ==
  /\ scn = "pipeline"
  /\ running
  /\ startSt.pc = "idle"
  /\ plugins["g1"] = "g1"
  /\ status["g1"] = "stopped"

\* C14: from any state in which the name of p is free, registering p,
\* unloading that name and registering a plugin q of the same name all
\* succeed, and afterwards exactly one plugin of that name is registered.
C14_LoadUnloadLoad ==
  \A p, q \in Plugins :
    Name(p) = Name(q) /\ plugins[Name(p)] = NoPlugin =>
      LET n == Name(p)
          r1 == RegisterPlugin(plugins, p)
          r2 == UnregisterPlugin(r1, n)
          r3 == RegisterPlugin(r2, q)
      IN /\ ~RegisterFails(plugins, p) /\ r1[n] = p
         /\ ~UnregisterFails(r1, n) /\ r2[n] = NoPlugin
         /\ ~RegisterFails(r2, q) /\ r3[n] = q
         /\ Cardinality({x \in Registered(r3) : Name(x) = n}) = 1
         /\ \A m \in Names \ {n} : r3[m] = plugins[m]

\* C14 witness: in the running engine the configured collector was unloaded
\* and loaded again, both calls returned nil, and it is registered.
C14_Witness ==
  /\ scn = "restart"
  /\ running
  /\ ops = 2
  /\ unl = NoPlugin
  /\ ret = Ok
  /\ plugins["c1"] = "c1"

\* The orders in which the callers of LoadPlugin for the plugins S can
\* take the registry's lock
Orders(S) ==
  {f \in [1..Cardinality(S) -> S] :
     \A i, j \in 1..Cardinality(S) : f[i] = f[j] => i = j}

\* The registry after the RegisterPlugin calls for ps, in that order
RECURSIVE RegisterAll(_, _)
RegisterAll(reg, ps) ==
  IF ps = <<>> THEN reg
  ELSE RegisterAll(RegisterPlugin(reg, Head(ps)), Tail(ps))

\* None of the RegisterPlugin calls for ps, in that order, fails
RECURSIVE NoneFails(_, _)
NoneFails(reg, ps) ==
  \/ ps = <<>>
  \/ /\ ~RegisterFails(reg, Head(ps))
     /\ NoneFails(RegisterPlugin(reg, Head(ps)), Tail(ps))

\* C15: LoadPlugin calls for N of the caller's plugins with pairwise
\* distinct free names, in whatever order they take the registry's lock, all succeed, and the
\* registry then holds N plugins more, among them those N.
C15_ConcurrentLoadsAllCounted ==
  \A S \in SUBSET Objects(scn) :
    (/\ \A p, q \in S : Name(p) = Name(q) => p = q
     /\ \A p \in S : plugins[Name(p)] = NoPlugin) =>
      \A f \in Orders(S) :
        /\ NoneFails(plugins, f)
        /\ S \subseteq Registered(RegisterAll(plugins, f))
        /\ Cardinality(Registered(RegisterAll(plugins, f))) =
             Cardinality(Registered(plugins)) + Cardinality(S)

\* C15 witness: three LoadPlugin calls with distinct names have returned
\* nil and three plugins are registered.
C15_Witness ==
  /\ scn = "registry"
  /\ ops = 3
  /\ ret = Ok
  /\ GetPluginCount = 3

C17_UnloadLeavesStopped ==
  [][unl # NoPlugin /\ unl' = NoPlugin /\ ret' = Ok =>
       /\ plugins'[unl] = NoPlugin
       /\ status'[plugins[unl]] # "running"]_vars

\* C18: QueryDefaultAgent without a configured default agent returns a
\* configuration error; QueryAgent for a name that is not registered, or
\* registered for a plugin that is not an agent, returns a plugin error;
\* in these cases ProcessQuery is called on no plugin.
C18_QueryErrors ==
  \A apiOk \in BOOLEAN :
    /\ QueryDefaultAgentResult("", apiOk) = Result("query", "configuration", {})
    /\ \A n \in Names :
         GetPlugin(n) = NoPlugin \/ Type(GetPlugin(n)) # "agent" =>
           /\ QueryAgentResult(n, apiOk) = Result("query", "plugin", {})
           /\ QueryDefaultAgentResult(n, apiOk) = Result("query", "plugin", {})

\* C18 witness: a collector and a responder are registered, no agent, and
\* the last query returned the configuration error.
C18_Witness ==
  /\ scn = "registry"
  /\ plugins["c1"] = "c1"
  /\ plugins["r1"] = "r1"
  /\ plugins["g1"] = NoPlugin
  /\ ret = Result("query", "configuration", {})

\* C19: GET /health answers 200 exactly when the engine is running and no
\* Stop is in progress, GET /ready exactly when in addition a plugin is
\* registered; otherwise they answer 503.
C19_LivenessAndReadiness ==
  [][/\ ret' # ret /\ ret'.op = "GET /health" =>
          /\ ret'.kind \in {"200", "503"}
          /\ ret'.kind = "200" <=> running /\ stopSt # "wait"
     /\ ret' # ret /\ ret'.op = "GET /ready" =>
          /\ ret'.kind \in {"200", "503"}
          /\ ret'.kind = "200" <=>
               running /\ stopSt # "wait" /\ GetPluginCount > 0]_vars

\* C20: the overall health status is unhealthy exactly when a registered
\* check failed and healthy otherwise; a registered custom check that
\* always fails is reported as failed and makes the overall status
\* unhealthy.
C20_HealthAggregation ==
  [][ret' # ret /\ ret'.op = "health" =>
       /\ ret'.kind \in {"healthy", "unhealthy"}
       /\ ret'.kind = "unhealthy" <=> ret'.info # {}
       /\ ret'.info \subseteq checks
       /\ \A c \in CustomChecks \cap checks :
            c \in ret'.info /\ ret'.kind = "unhealthy"]_vars

\* C20 witness: the overall status is unhealthy and the custom check is
\* among the failed ones on a running engine.
C20_Witness ==
  /\ ret.op = "health" /\ ret.kind = "unhealthy"
  /\ CustomChecks \subseteq ret.info
  /\ "framework_running" \notin ret.info

C22_GetStatusIsPure ==
  [][ret'.op = "status" /\ ret' # ret =>
       /\ UNCHANGED <<scn, size, orchVars, gs, hd, contextData, checks, plugins, status, running, shutdown,
                      mu, gen, ctxDone, wg, dataChannel, startSt, stopSt,
                      unl, cw, proc, hs, nextSeq, recvSeq, ops>>
       /\ ret'.snapshot = GetStatusResult
       /\ ret'.snapshot = GetStatusResult']_vars

\* C22 witness: GetStatus returned the snapshot of a running engine whose
\* collector is running, while a batch waits in the data channel.
C22_Witness ==
  /\ ret.op = "status"
  /\ ret.snapshot = GetStatusResult
  /\ ret.snapshot.running
  /\ ret.snapshot.collectors = 1
  /\ ret.snapshot.plugins["c1"].status = "running"
  /\ dataChannel # <<>>

\* C23: under any sequence of Configure, Start and Stop calls on the
\* plugins, every change of a plugin's status is an edge of the lifecycle
\* state machine: stopped to starting, starting to running or error,
\* running to stopping or error, stopping to stopped, error to stopped.
C23_StatusFollowsLifecycle ==
  [][\A p \in Plugins :
       status'[p] # status[p] =>
         <<status[p], status'[p]>> \in
           {<<"stopped", "starting">>, <<"starting", "running">>,
            <<"starting", "error">>, <<"running", "stopping">>,
            <<"stopping", "stopped">>, <<"running", "error">>,
            <<"error", "stopped">>}]_vars

\* C24: a Stop call on a plugin whose status is error leaves the plugin
\* stopped.
C24_StopFromErrorStops ==
  [][\A p \in Plugins :
       /\ ret' # ret /\ ret'.op = "plugin stop" /\ ret'.info = {p}
       /\ status[p] = "error"
       => status'[p] = "stopped"]_vars

\* C25: once the caller has cancelled the context handed to Start, with no
\* Stop called, every collector worker, the processor worker and the
\* health-surface worker of that Start eventually exit.
C25_CallerCancelStopsWorkers ==
  \A g \in ShutdownGens :
    (ctxDone[g] /\ ~shutdown) ~>
      /\ \A c \in Collectors : cw[g][c] \in {CwIdle, "done"}
      /\ proc[g].pc \in {"none", "done"}
      /\ hs[g] # "serving"

\* C25 witness: the caller cancelled the context, Stop was never called,
\* and the two collector workers, the processor worker and the
\* health-surface worker have exited.
C25_Witness ==
  /\ ctxDone[1] /\ ~shutdown /\ running
  /\ cw[1]["c1"] = "done" /\ cw[1]["c2"] = "done"
  /\ proc[1].pc = "done"
  /\ hs[1] = "done"

\* C26: the step of a Start call that starts the plugins invokes Start on
\* every registered responder and agent while no collector worker of that
\* call exists; the workers are spawned only by the step that follows it,
\* and only a spawned worker whose Start call has passed that step
\* collects or pushes a batch.
C26_StartedBeforeCollect ==
  [][/\ startSt.pc = "idle" /\ startSt'.pc = "spawn" =>
          /\ \A p \in ListPlugins :
               Type(p) \in {"responder", "agent"} =>
                 /\ p \in startSt'.snap
                 /\ \/ status'[p] = "running"
                    \/ CanFailStart(p) /\ status'[p] = "error"
          /\ \A c \in Collectors : cw'[gen'][c] = CwIdle
     /\ \A g \in Gens, c \in Collectors :
          /\ cw[g][c] = CwIdle /\ cw'[g][c] # CwIdle =>
               startSt.pc = "spawn" /\ startSt'.pc = "idle" /\ g = gen
          /\ \/ cw[g][c] = "tick" /\ cw'[g][c] # "tick"
             \/ cw[g][c] = "send" /\ Len(dataChannel') > Len(dataChannel)
             => g <= gen /\ ~(g = gen /\ startSt.pc = "spawn")]_vars

\* C26 witness: a batch of c1 waits in the channel while the responders,
\* started before the collector worker was spawned, are running and the
\* agent, whose Start failed, is in status error.
C26_Witness ==
  /\ scn = "pipeline"
  /\ dataChannel # <<>>
  /\ status["r1"] = "running" /\ status["r2"] = "running"
  /\ status["g1"] = "error"

\* C27: the spawning step of a Start call creates one processor worker and
\* one collector worker for each collector registered then, no other step
\* creates a pipeline worker, and at no time are two processor workers
\* alive.
C27_OneProcessor ==
  /\ [](Cardinality(LiveProcessors) <= 1)
  /\ [][/\ startSt.pc = "spawn" /\ startSt'.pc = "idle" =>
             /\ proc[gen].pc = "none" /\ proc'[gen].pc = "recv"
             /\ \A g \in Gens \ {gen} : proc'[g] = proc[g] /\ cw'[g] = cw[g]
             /\ \A c \in Collectors :
                  /\ cw[gen][c] = CwIdle
                  /\ cw'[gen][c] # CwIdle <=>
                       c \in ListPluginsByType("collector")
        /\ \A g \in Gens :
             \/ proc[g].pc = "none" /\ proc'[g].pc # "none"
             \/ \E c \in Collectors : cw[g][c] = CwIdle /\ cw'[g][c] # CwIdle
             => startSt.pc = "spawn" /\ startSt'.pc = "idle" /\ g = gen]_vars

\* C28: when Analyze returns an error the analyzers not yet offered the
\* batch are all still to be offered it, and with none left the processor
\* goes on to the next batch; when Respond returns an error the responders
\* not yet asked are all still to be asked for that analysis.
C28_ErrorsDoNotAbort ==
  [][\A g \in Gens :
       /\ AnalyzerCallStep(g) /\ proc'[g].err =>
            \E a \in proc[g].todo :
              IF proc[g].todo = {a}
                THEN proc'[g].pc = "recv"
                ELSE /\ proc'[g].pc = "analyzers"
                     /\ proc'[g].todo = proc[g].todo \ {a}
       /\ RespondStep(g) /\ proc'[g].err =>
            /\ proc'[g].todo = proc[g].todo \/ proc'[g].pc = "recv"
            /\ IF proc[g].rtodo # {}
                 THEN /\ proc'[g].pc = "responders"
                      /\ proc'[g].rtodo = proc[g].rtodo
                      /\ proc'[g].an = proc[g].an
                 ELSE /\ proc'[g].pc \in {"analyzers", "recv"}
                      /\ proc'[g].pc = "recv" <=> proc[g].todo = {}]_vars

\* C28 witness: Analyze of one analyzer returned an error and the other
\* analyzer is still to be offered the batch.
C28_Witness ==
  /\ proc[1].pc = "analyzers"
  /\ proc[1].err
  /\ Cardinality(proc[1].todo) = 1
  /\ {"a1", "a2"} \subseteq ListPlugins

\* C29: a worker whose Collect returned an error sends nothing for that
\* tick and is back at its select, still alive; from there it leaves only
\* on a cancelled context, and after its next tick it calls Collect again
\* unless the shutdown flag is set.
C29_CollectErrorContinues ==
  [][\A g \in Gens, c \in Collectors :
       /\ cw[g][c] = "tick" /\ cw'[g][c] = "failed" =>
            /\ dataChannel' = dataChannel
            /\ nextSeq' = nextSeq
            /\ wg' = wg
            /\ ~shutdown
       /\ cw[g][c] = "failed" /\ cw'[g][c] # "failed" =>
            \/ cw'[g][c] = "tick"
            \/ cw'[g][c] = "done" /\ ctxDone[g]
       /\ cw[g][c] = "tick" /\ cw'[g][c] = "done" => shutdown]_vars

\* C29 witness: Collect of c1 returned an error after one batch had been
\* sent; the worker is back at its select, nothing was added to the
\* channel, and neither the context is cancelled nor the shutdown flag set.
C29_Witness ==
  /\ cw[1]["c1"] = "failed"
  /\ nextSeq["c1"] = 1
  /\ Len(dataChannel) <= 1
  /\ ~ctxDone[1] /\ ~shutdown

\* C30: while a batch is with the analyzers or the responders, every agent
\* that was registered when the processor took the batch holds that batch
\* as its snapshot, and still does when the processor is done with the
\* batch; the snapshot of an agent changes only by SetContext in the
\* agents loop, and a query leaves every snapshot as it is.
C30_SnapshotIsLastBatch ==
  /\ [](\A g \in Gens :
          proc[g].pc \in {"analyzers", "responders", "respond"} =>
            \A a \in proc[g].ags : contextData[a] = proc[g].data)
  /\ [][/\ \A g \in Gens :
             /\ proc[g].pc = "recv" /\ proc'[g].pc \notin {"recv", "done"} =>
                  /\ proc'[g].ags = ListPluginsByType("agent")
                  /\ proc'[g].data = Head(dataChannel)
             /\ proc[g].pc \notin {"none", "recv", "done"}
                  /\ proc'[g].pc = "recv" =>
                  \A a \in proc[g].ags : contextData'[a] = proc[g].data
        /\ \A a \in Agents :
             contextData'[a] # contextData[a] =>
               \E g \in Gens :
                 /\ AgentCallStep(g)
                 /\ a \in proc[g].todo
                 /\ contextData'[a] = proc[g].data
        /\ ret' # ret /\ ret'.op = "query" =>
             contextData' = contextData]_vars

\* C30 witness: the processor is done with the second batch of c1, the
\* agent's snapshot is that batch, and the agent has answered a query.
C30_Witness ==
  /\ proc[1].pc = "recv"
  /\ recvSeq["c1"] = 2
  /\ contextData["g1"] = [src |-> "c1", seq |-> 2]
  /\ ret = Result("query", "nil", {"g1"})

\* C31: the handler of GET /status, holding the read lock and about to
\* take it again in GetStatus, and a Stop call waiting in Lock never wait
\* on each other.
C31_HandlerAndStopNeverDeadlock ==
  ~(hd = "locked" /\ mu = "stopLock")

\* C32: while Stop holds the engine lock and waits for the workers, no
\* collector worker waits for that lock, and Stop leaves its wait only
\* when every worker has exited, never through the timeout.
C32_NoWorkerBlockedByStop ==
  /\ [](stopSt = "wait" =>
          \A g \in Gens, c \in Collectors : cw[g][c] # "tick")
  /\ [][stopSt = "wait" /\ stopSt' = "idle" => wg = 0]_vars

\* C33: an engine that Start has brought up, also after an earlier Stop,
\* is live: its shutdown flag is not set, GET /health answers 200, and a
\* collector worker that ticked calls Collect instead of exiting.
C33_RestartYieldsLiveEngine ==
  /\ [](running /\ startSt.pc = "idle" => ~shutdown)
  /\ [][/\ ret' # ret /\ ret'.op = "GET /health" /\ running =>
             ret'.kind = "200"
        /\ \A g \in Gens, c \in Collectors :
             cw[g][c] = "tick" /\ cw'[g][c] = "done" => ~running]_vars

\* C34: whenever the engine reports itself live, with the running flag set
\* and the shutdown flag not set once Start has returned, a processor
\* worker is alive.
C34_LiveEngineHasProcessor ==
  running /\ ~shutdown /\ startSt.pc = "idle" => LiveProcessors # {}


\* C35: once UnloadPlugin has returned for a collector while the engine is
\* running, that collector's worker calls Collect no more and sends no
\* further batch of it to the data channel.
C35_UnloadedCollectorIsSilent ==
  [][\A g \in Gens, c \in Collectors :
       plugins[Name(c)] # c /\ unl # Name(c) /\ running /\ ~shutdown =>
         /\ ~(cw[g][c] = "tick" /\ cw'[g][c] \in {"send", "failed", "select"})
         /\ nextSeq'[c] = nextSeq[c]]_vars


\* C36: every snapshot GetStatus returns is consistent: total_plugins is
\* the sum of the four per-type counts and the number of entries of the
\* per-plugin map, also when LoadPlugin or UnloadPlugin ran during the call.
C36_SnapshotCountsAgree ==
  ret.op = "status" =>
    /\ ret.snapshot.total_plugins =
         ret.snapshot.collectors + ret.snapshot.analyzers
           + ret.snapshot.responders + ret.snapshot.agents
    /\ ret.snapshot.total_plugins = Cardinality(DOMAIN ret.snapshot.plugins)


\* C37: the default check plugins_healthy, when it returns in time, fails
\* exactly when some registered plugin has status error; the health status
\* of a running engine with the default checks whose registered plugins are
\* all running is healthy.
C37_PluginsHealthyIffNoError ==
  [][ret' # ret /\ ret'.op = "health" /\ "plugins_healthy" \in checks \ TimedOut =>
       /\ ret'.checks["plugins_healthy"].status = "unhealthy" <=>
            \E p \in ListPlugins : status[p] = "error"
       /\ (/\ running /\ checks = DefaultChecks
           /\ \A p \in ListPlugins : status[p] = "running") =>
            ret'.kind = "healthy"]_vars


\* C38: a workflow of the orchestrator that is completed, failed or
\* cancelled has no step in status running; when it is failed, the step
\* whose execution failed has status failed and every step after it is
\* pending.
C38_TerminalWorkflowHasNoRunningStep ==
  workflow.State \in {"completed", "failed", "cancelled"} =>
    /\ \A i \in DOMAIN workflow.Steps : workflow.Steps[i].Status # "running"
    /\ workflow.State = "failed" =>
         \E i \in DOMAIN workflow.Steps :
           /\ workflow.Steps[i].Status = "failed"
           /\ \A j \in DOMAIN workflow.Steps :
                j > i => workflow.Steps[j].Status = "pending"

====
